---- MODULE Spec2Model ----
(***************************************************************************)
(* DashMachine (dashmachine/dm/__init__.py): the object that loads the     *)
(* configuration files, keeps the dashboard mapping, compiles the theme    *)
(* and rebuilds everything when a file watcher fires.                      *)
(*                                                                         *)
(* One build() is a thread of control with a program counter; the startup  *)
(* build (id 0) runs inside the constructor, every later build is started  *)
(* by a FileWatcher callback on a context of its own, so later builds      *)
(* interleave statement by statement.                                      *)
(***************************************************************************)
EXTENDS Integers, FiniteSets, Sequences, TLC

\* Number of callback-triggered builds a behaviour may hold (the startup
\* build comes on top).
MaxRebuilds == 2

\* Number of changes made from outside that a behaviour may hold: edits of
\* the files build() reads and change_theme requests. Putting a removed
\* dashboard file back is not counted (PutsBack).
MaxEdits == 1

\* None where a text is expected (an error, the compiled css)
None == "None"

\* None where an object is expected (self.settings = None)
NoneObj == [none |-> TRUE]

\* None where a dict is expected (self.dashboards = None)
NoDict == -1

\* ---------------------------------------------------------------- files

Themes == {"light", "dark"}

DefaultTheme == "light"

SettingsErr == "settings.toml: invalid"

DataSourceErr == "data_sources.toml: invalid"

\* What settings.toml can hold: unparsable, or a theme with or without a
\* query_providers table.
SettingsFiles ==
    { [valid |-> FALSE, theme |-> None, qp |-> FALSE],
      [valid |-> TRUE, theme |-> "light", qp |-> FALSE],
      [valid |-> TRUE, theme |-> "dark", qp |-> TRUE] }

\* Entries of the dashboards folder, each a stem and an extension.
Entries ==
    { [stem |-> "main", ext |-> ".toml"],
      [stem |-> "media", ext |-> ".toml"],
      [stem |-> "media", ext |-> ""] }

\* file.replace(".toml", ""): the entry's name without any ".toml".
Key(file) == file.stem

Keys(files) == {Key(f) : f \in files}

VARIABLES
    fs,                         \* the configuration files on disk
    css,                        \* static/css/vendors/bootstrap.min.css
    cm_error,                   \* self.config_modifier.error
    settings,                   \* self.settings
    query_providers,            \* self.query_providers
    data_source_handler,        \* self.data_source_handler
    shared_cards,               \* self.shared_cards
    dashboards,                 \* self.dashboards: None or the id of a dict
    main_dashboard,             \* self.main_dashboard
    dicts,                      \* the dict objects build() has created
    dashboard_file_watchers,    \* self.dashboard_file_watchers
    phase,                      \* where the constructor is, or "serving"
    pending,                    \* dashboard watchers that have yet to call back
    ct,                         \* the request running change_theme, if any
    pc,                         \* position of every build()
    loc,                        \* local variables of every build()
    nedits                      \* changes made from outside so far

vars ==
    << fs, css, cm_error, settings, query_providers, data_source_handler,
       shared_cards, dashboards, main_dashboard, dicts,
       dashboard_file_watchers, pending, ct, phase, pc, loc, nedits >>

Builds == 0 .. MaxRebuilds

Rebuilds == 1 .. MaxRebuilds

\* ------------------------------------------------- collaborators' objects

\* Settings(): parses settings.toml; a failure gives the defaults and an error.
Settings(file) ==
    IF ~file.valid
    THEN [error |-> SettingsErr, theme |-> DefaultTheme, qp |-> FALSE]
    ELSE [error |-> None, theme |-> file.theme, qp |-> file.qp]

\* Settings(read_toml=False): the defaults, nothing read.
SettingsDefault == [error |-> None, theme |-> DefaultTheme, qp |-> FALSE]

\* DataSourceHandler(): parses data_sources.toml.
DataSourceHandler(file) ==
    IF file = "bad"
    THEN [error |-> DataSourceErr, sources |-> "empty"]
    ELSE [error |-> None, sources |-> "loaded"]

\* Dashboard(file=file, dm=self), created by build b.
\* Its cards are read from its file.
Dashboard(b, file) ==
    [gen |-> b, file |-> file, error |-> None, cards |-> fs.cards[file]]

EmptyDict == [k \in {} |-> NoneObj]

\* Locals of a build(): the directory entries still to load, the compiled css
\* not yet written, the dict a stamping loop iterates with the size it had
\* when the loop began and the keys still to visit; and what this build's own
\* loads returned (setErr, dsErr, listed).
NoLocals == [files |-> {}, css |-> None, it |-> NoDict, size |-> 0, todo |-> {},
             setErr |-> None, dsErr |-> None, listed |-> {}]

\* ------------------------------------------------------------------ Init

\* The constructor is entered (lines 50-59) with a settings.toml that parses
\* or not, readable data sources and shared cards, two dashboards and themes
\* that compile; FileChange makes the other files. phase tells where the
\* constructor is: "init" (line 60, the startup build), "watching" (lines
\* 62-81 done), "registering" (lines 82-86), "serving" (returned), "crashed"
\* (left by an exception).

Init ==
    /\ fs \in [settings : {f \in SettingsFiles : f.theme # "light"},
               ds : {"ok"}, shared : {"ok"},
               dir : {{e \in Entries : e.ext = ".toml"}},
               themes : {Themes}, cards : {[e \in Entries |-> 0]}]
    /\ css = None
    /\ cm_error = None
    /\ settings = NoneObj
    /\ query_providers = "default"
    /\ data_source_handler = NoneObj
    /\ shared_cards = "empty"
    /\ dashboards = NoDict
    /\ main_dashboard = NoneObj
    /\ dicts = [b \in Builds |-> EmptyDict]
    /\ dashboard_file_watchers = {}
    /\ pending = {}
    /\ ct = [pc |-> "idle", css |-> None]
    /\ phase = "init"
    /\ pc = [b \in Builds |-> IF b = 0 THEN "clear" ELSE "idle"]
    /\ loc = [b \in Builds |-> NoLocals]
    /\ nedits = 0

\* ----------------------------------------------------------------- build

\* Python frees a dict nothing refers to: one that is neither self.dashboards
\* nor held by the iterator of a running loop.
Collect(ds, live, locals) ==
    [d \in Builds |->
        IF d = live \/ \E b \in Builds : locals[b].it = d
        THEN ds[d] ELSE EmptyDict]

\* line 96: self.config_modifier.error = None
ClearError(b) ==
    /\ pc[b] = "clear"
    /\ cm_error' = None
    /\ pc' = [pc EXCEPT ![b] = "settings"]
    /\ UNCHANGED << fs, css, settings, query_providers, data_source_handler,
                    shared_cards, dashboards, main_dashboard, dicts,
                    dashboard_file_watchers, pending, ct, phase, loc, nedits >>

\* line 99 had it kept the default Settings that line 123 put in place
\* instead of reading settings.toml again.
LoadSettingsUnlessDefault(b) ==
    /\ pc[b] = "settings"
    /\ settings' = IF settings = SettingsDefault
                   THEN settings ELSE Settings(fs.settings)
    /\ pc' = [pc EXCEPT ![b] = "providers"]
    /\ loc' = [loc EXCEPT ![b].setErr = settings'.error]
    /\ UNCHANGED << fs, css, cm_error, query_providers, data_source_handler,
                    shared_cards, dashboards, main_dashboard, dicts,
                    dashboard_file_watchers, pending, ct, phase, nedits >>

\* line 99: self.settings = Settings()
LoadSettings(b) ==
    /\ pc[b] = "settings"
    /\ settings' = Settings(fs.settings)
    /\ pc' = [pc EXCEPT ![b] = "providers"]
    /\ loc' = [loc EXCEPT ![b].setErr = settings'.error]
    /\ UNCHANGED << fs, css, cm_error, query_providers, data_source_handler,
                    shared_cards, dashboards, main_dashboard, dicts,
                    dashboard_file_watchers, pending, ct, phase, nedits >>

\* lines 100-103: the registry of the live Settings, or the default one
ProvidersOf(s) == IF s.qp THEN "custom" ELSE "default"

ChooseProviders(b) ==
    /\ pc[b] = "providers"
    /\ query_providers' = ProvidersOf(settings)
    /\ pc' = [pc EXCEPT ![b] = "compile"]
    /\ UNCHANGED << fs, css, cm_error, settings, data_source_handler,
                    shared_cards, dashboards, main_dashboard, dicts,
                    dashboard_file_watchers, pending, ct, phase, loc, nedits >>

\* lines 152-165: the source of the active theme is looked up and compiled;
\* sass.compile raises when the source is missing or does not compile.
Compiles(theme) == theme \in fs.themes

\* bootstrap.min.css had it been opened for writing before the compilation.
StylesheetTruncated(old) == ""

\* lines 161-167: bootstrap.min.css is opened only after sass.compile has
\* returned, so a compilation that raises leaves the old file as it is.
StylesheetOnError(old) == old

\* Where build() ends when it did not return: the exception that left it.
Exceptions == {"CompileError", "RuntimeError"}

\* A statement of build() raises: the exception leaves build(), and in the
\* constructor it leaves the constructor as well.
Raise(b, exception) ==
    /\ pc' = [pc EXCEPT ![b] = exception]
    /\ loc' = [loc EXCEPT ![b] = NoLocals]
    /\ phase' = IF b = 0 THEN "crashed" ELSE phase
    /\ dicts' = Collect(dicts, dashboards, loc')

\* line 106 had a failed compile_theme emptied the shared cards on its way
\* out of build().
BuildCompileClearing(b) ==
    /\ pc[b] = "compile"
    /\ IF Compiles(settings.theme)
       THEN /\ pc' = [pc EXCEPT ![b] = "write"]
            /\ loc' = [loc EXCEPT ![b].css = settings.theme]
            /\ UNCHANGED << phase, dicts, css, shared_cards >>
       ELSE /\ Raise(b, "CompileError")
            /\ css' = StylesheetOnError(css)
            /\ shared_cards' = "empty"
    /\ UNCHANGED << fs, cm_error, settings, query_providers,
                    data_source_handler, dashboards, main_dashboard,
                    dashboard_file_watchers, pending, ct, nedits >>

\* line 106: self.compile_theme()
BuildCompile(b) ==
    /\ pc[b] = "compile"
    /\ IF Compiles(settings.theme)
       THEN /\ pc' = [pc EXCEPT ![b] = "write"]
            /\ loc' = [loc EXCEPT ![b].css = settings.theme]
            /\ UNCHANGED << phase, dicts, css >>
       ELSE Raise(b, "CompileError") /\ css' = StylesheetOnError(css)
    /\ UNCHANGED << fs, cm_error, settings, query_providers,
                    data_source_handler, shared_cards, dashboards,
                    main_dashboard, dashboard_file_watchers, pending, ct,
                    nedits >>

\* build() had it loaded the Dashboards right after the theme, before the
\* data sources and the shared cards.
BuildWriteCssThenDashboards(b) ==
    /\ pc[b] = "write"
    /\ css' = loc[b].css
    /\ pc' = [pc EXCEPT ![b] = "newdict"]
    /\ loc' = [loc EXCEPT ![b].css = None]
    /\ UNCHANGED << fs, cm_error, settings, query_providers,
                    data_source_handler, shared_cards, dashboards,
                    main_dashboard, dicts, dashboard_file_watchers, pending,
                    ct, phase, nedits >>

\* lines 166-167: the compiled css replaces bootstrap.min.css
BuildWriteCss(b) ==
    /\ pc[b] = "write"
    /\ css' = loc[b].css
    /\ pc' = [pc EXCEPT ![b] = "datasources"]
    /\ loc' = [loc EXCEPT ![b].css = None]
    /\ UNCHANGED << fs, cm_error, settings, query_providers,
                    data_source_handler, shared_cards, dashboards,
                    main_dashboard, dicts, dashboard_file_watchers, pending,
                    ct, phase, nedits >>

\* line 109: self.data_source_handler = DataSourceHandler()
LoadDataSources(b) ==
    /\ pc[b] = "datasources"
    /\ data_source_handler' = DataSourceHandler(fs.ds)
    /\ pc' = [pc EXCEPT ![b] = "shared"]
    /\ loc' = [loc EXCEPT ![b].dsErr = data_source_handler'.error]
    /\ UNCHANGED << fs, css, cm_error, settings, query_providers, shared_cards,
                    dashboards, main_dashboard, dicts, dashboard_file_watchers,
                    pending, ct, phase, nedits >>

\* lines 173-188: toml.load(shared_cards_toml), {} when it raises
load_shared_cards == IF fs.shared = "bad" THEN "empty" ELSE "cards"

\* line 112 had load_shared_cards reported its failure in the shared error
\* holder.
LoadSharedCardsFlagging(b) ==
    /\ pc[b] = "shared"
    /\ shared_cards' = load_shared_cards
    /\ cm_error' = IF fs.shared = "bad"
                   THEN "shared_cards.toml: invalid" ELSE cm_error
    /\ pc' = [pc EXCEPT ![b] = "newdict"]
    /\ UNCHANGED << fs, css, settings, query_providers,
                    data_source_handler, dashboards, main_dashboard, dicts,
                    dashboard_file_watchers, pending, ct, phase, loc, nedits >>

\* line 112: self.shared_cards = self.load_shared_cards()
LoadSharedCards(b) ==
    /\ pc[b] = "shared"
    /\ shared_cards' = load_shared_cards
    /\ pc' = [pc EXCEPT ![b] = "newdict"]
    /\ UNCHANGED << fs, css, cm_error, settings, query_providers,
                    data_source_handler, dashboards, main_dashboard, dicts,
                    dashboard_file_watchers, pending, ct, phase, loc, nedits >>

\* line 115: self.dashboards = {}
NewDict(b) ==
    /\ pc[b] = "newdict"
    /\ dashboards' = b
    /\ dicts' = Collect([dicts EXCEPT ![b] = EmptyDict], b, loc)
    /\ pc' = [pc EXCEPT ![b] = "listdir"]
    /\ UNCHANGED << fs, css, cm_error, settings, query_providers,
                    data_source_handler, shared_cards, main_dashboard,
                    dashboard_file_watchers, pending, ct, phase, loc, nedits >>

\* line 116: os.listdir(dashboards_folder), evaluated once
ListDir(b) ==
    /\ pc[b] = "listdir"
    /\ pc' = [pc EXCEPT ![b] = "load"]
    /\ loc' = [loc EXCEPT ![b].files = fs.dir, ![b].listed = fs.dir]
    /\ UNCHANGED << fs, css, cm_error, settings, query_providers,
                    data_source_handler, shared_cards, dashboards,
                    main_dashboard, dicts, dashboard_file_watchers, pending,
                    ct, phase, nedits >>

\* d[key] = value
DictSet(d, key, value) == (key :> value) @@ d

\* line 117, one iteration: the Dashboard goes into whichever dict
\* self.dashboards names now. os.listdir gives the entries in any order.
LoadDashboard(b) ==
    /\ pc[b] = "load"
    /\ \E file \in loc[b].files :
          /\ dicts' = [dicts EXCEPT ![dashboards] =
                          DictSet(@, Key(file), Dashboard(b, file))]
          /\ loc' = [loc EXCEPT ![b].files = @ \ {file}]
    /\ UNCHANGED << fs, css, cm_error, settings, query_providers,
                    data_source_handler, shared_cards, dashboards,
                    main_dashboard, dashboard_file_watchers, pending, ct,
                    phase, pc, nedits >>

\* self.dashboards.items(): the iterator remembers the dict and its size
Iterate(b, d) ==
    [loc[b] EXCEPT !.it = d, !.size = Cardinality(DOMAIN dicts[d]),
                   !.todo = DOMAIN dicts[d]]

\* A dict iterator raises RuntimeError when the dict's size has changed.
SizeChanged(b) == Cardinality(DOMAIN dicts[loc[b].it]) # loc[b].size

\* dboard.error = error, for the Dashboard under key k of dict d
StampOne(d, k, error) == [dicts EXCEPT ![d][k].error = error]

\* build() returns
Return(b) ==
    /\ pc' = [pc EXCEPT ![b] = "done"]
    /\ loc' = [loc EXCEPT ![b] = NoLocals]
    /\ dicts' = Collect(dicts, dashboards, loc')

\* line 120, reached when the loop of line 116 is exhausted:
\* if self.settings.error, and the loop of line 121 begins
TestSettingsError(b) ==
    /\ pc[b] = "load"
    /\ loc[b].files = {}
    /\ IF settings.error # None
       THEN /\ pc' = [pc EXCEPT ![b] = "stamp_settings"]
            /\ loc' = [loc EXCEPT ![b] = Iterate(b, dashboards)]
       ELSE /\ pc' = [pc EXCEPT ![b] = "test_datasources"]
            /\ UNCHANGED loc
    /\ UNCHANGED << fs, css, cm_error, settings, query_providers,
                    data_source_handler, shared_cards, dashboards,
                    main_dashboard, dicts, dashboard_file_watchers, pending,
                    ct, phase, nedits >>

\* lines 121-122, one iteration: dboard.error = self.settings.error
StampSettingsError(b) ==
    /\ pc[b] = "stamp_settings"
    /\ IF SizeChanged(b)
       THEN Raise(b, "RuntimeError")
       ELSE IF loc[b].todo # {}
       THEN /\ \E k \in loc[b].todo :
                  /\ dicts' = StampOne(loc[b].it, k, settings.error)
                  /\ loc' = [loc EXCEPT ![b].todo = @ \ {k}]
            /\ UNCHANGED << pc, phase >>
       ELSE /\ pc' = [pc EXCEPT ![b] = "reset_settings"]
            /\ loc' = [loc EXCEPT ![b].it = NoDict, ![b].size = 0]
            /\ dicts' = Collect(dicts, dashboards, loc')
            /\ UNCHANGED phase
    /\ UNCHANGED << fs, css, cm_error, settings, query_providers,
                    data_source_handler, shared_cards, dashboards,
                    main_dashboard, dashboard_file_watchers, pending, ct,
                    nedits >>

\* line 123 had it dropped the Settings that failed to load instead of
\* putting the default in its place.
ResetSettingsToNone(b) ==
    /\ pc[b] = "reset_settings"
    /\ settings' = NoneObj
    /\ pc' = [pc EXCEPT ![b] = "test_datasources"]
    /\ UNCHANGED << fs, css, cm_error, query_providers, data_source_handler,
                    shared_cards, dashboards, main_dashboard, dicts,
                    dashboard_file_watchers, pending, ct, phase, loc, nedits >>

\* line 123: self.settings = Settings(read_toml=False)
ResetSettings(b) ==
    /\ pc[b] = "reset_settings"
    /\ settings' = SettingsDefault
    /\ pc' = [pc EXCEPT ![b] = "test_datasources"]
    /\ UNCHANGED << fs, css, cm_error, query_providers, data_source_handler,
                    shared_cards, dashboards, main_dashboard, dicts,
                    dashboard_file_watchers, pending, ct, phase, loc, nedits >>

\* line 124: if self.data_source_handler.error, and the loop of line 125
\* begins; otherwise build() returns (line 128)
TestDataSourceError(b) ==
    /\ pc[b] = "test_datasources"
    /\ IF data_source_handler.error # None
       THEN /\ pc' = [pc EXCEPT ![b] = "stamp_datasources"]
            /\ loc' = [loc EXCEPT ![b] = Iterate(b, dashboards)]
            /\ UNCHANGED dicts
       ELSE Return(b)
    /\ UNCHANGED << fs, css, cm_error, settings, query_providers,
                    data_source_handler, shared_cards, dashboards,
                    main_dashboard, dashboard_file_watchers, pending, ct,
                    phase, nedits >>

\* lines 125-126, one iteration: dboard.error = self.data_source_handler.error;
\* when the loop is exhausted build() returns (line 128)
StampDataSourceError(b) ==
    /\ pc[b] = "stamp_datasources"
    /\ IF SizeChanged(b)
       THEN Raise(b, "RuntimeError")
       ELSE IF loc[b].todo # {}
       THEN /\ \E k \in loc[b].todo :
                  /\ dicts' = StampOne(loc[b].it, k, data_source_handler.error)
                  /\ loc' = [loc EXCEPT ![b].todo = @ \ {k}]
            /\ UNCHANGED << pc, phase >>
       ELSE Return(b) /\ UNCHANGED phase
    /\ UNCHANGED << fs, css, cm_error, settings, query_providers,
                    data_source_handler, shared_cards, dashboards,
                    main_dashboard, dashboard_file_watchers, pending, ct,
                    nedits >>

\* One statement of build() number b.
build(b) ==
    \/ ClearError(b)
    \/ LoadSettings(b)
    \/ ChooseProviders(b)
    \/ BuildCompile(b)
    \/ BuildWriteCss(b)
    \/ LoadDataSources(b)
    \/ LoadSharedCards(b)
    \/ NewDict(b)
    \/ ListDir(b)
    \/ LoadDashboard(b)
    \/ TestSettingsError(b)
    \/ StampSettingsError(b)
    \/ ResetSettings(b)
    \/ TestDataSourceError(b)
    \/ StampDataSourceError(b)

\* ----------------------------------------------------------- constructor

\* the constructor had it registered the watchers before calling self.build()
RegisterBuildWatchersFirst ==
    /\ phase = "init"
    /\ phase' = "watching"
    /\ UNCHANGED << fs, css, cm_error, settings, query_providers,
                    data_source_handler, shared_cards, dashboards,
                    main_dashboard, dicts, dashboard_file_watchers, pending,
                    ct, pc, loc, nedits >>

\* lines 62-81: the nine watchers whose callback is self.build
RegisterBuildWatchers ==
    /\ phase = "init"
    /\ pc[0] = "done"
    /\ phase' = "watching"
    /\ UNCHANGED << fs, css, cm_error, settings, query_providers,
                    data_source_handler, shared_cards, dashboards,
                    main_dashboard, dicts, dashboard_file_watchers, pending,
                    ct, pc, loc, nedits >>

\* The Dashboard objects a dict holds, each known by the build that made it
\* and the file it was made from.
Objects(d) == {[gen |-> d[k].gen, file |-> d[k].file] : k \in DOMAIN d}

\* lines 82-83: the list of dashboard watchers is created and the loop over
\* self.dashboards.items() begins, in the constructor's own thread
BeginDashboardWatchers ==
    /\ phase = "watching"
    /\ dashboard_file_watchers' = {}
    /\ loc' = [loc EXCEPT ![0] = Iterate(0, dashboards)]
    /\ phase' = "registering"
    /\ UNCHANGED << fs, css, cm_error, settings, query_providers,
                    data_source_handler, shared_cards, dashboards,
                    main_dashboard, dicts, pending, ct, pc, nedits >>

\* lines 83-86, one iteration: FileWatcher(dboard.toml_path,
\* dboard.load_cards); the constructor returns when the loop is exhausted
RegisterDashboardWatcher ==
    /\ phase = "registering"
    /\ IF SizeChanged(0)
       THEN /\ phase' = "crashed"
            /\ loc' = [loc EXCEPT ![0] = NoLocals]
            /\ dicts' = Collect(dicts, dashboards, loc')
            /\ UNCHANGED dashboard_file_watchers
       ELSE IF loc[0].todo # {}
       THEN /\ \E k \in loc[0].todo :
                  /\ dashboard_file_watchers' =
                        dashboard_file_watchers
                            \cup Objects([j \in {k} |-> dicts[loc[0].it][k]])
                  /\ loc' = [loc EXCEPT ![0].todo = @ \ {k}]
            /\ UNCHANGED << phase, dicts >>
       ELSE /\ phase' = "serving"
            /\ loc' = [loc EXCEPT ![0] = NoLocals]
            /\ dicts' = Collect(dicts, dashboards, loc')
            /\ UNCHANGED dashboard_file_watchers
    /\ UNCHANGED << fs, css, cm_error, settings, query_providers,
                    data_source_handler, shared_cards, dashboards,
                    main_dashboard, pending, ct, pc, nedits >>

\* ------------------------------------------------------------ file changes

\* The build watchers exist from line 63 on.
Watching == phase \in {"watching", "registering", "serving"}

\* A FileWatcher calls self.build on a context of its own.
StartBuild ==
    \E b \in Rebuilds :
        /\ pc[b] = "idle"
        /\ \A c \in Rebuilds : c < b => pc[c] # "idle"
        /\ pc' = [pc EXCEPT ![b] = "clear"]

\* A watcher of one dashboard's file (lines 84-86) sees the change when the
\* file is rewritten, or created again at the path it watches.
Touches(newfs, file) ==
    \/ newfs.cards[file] # fs.cards[file]
    \/ file \in newfs.dir \ fs.dir

\* The change only puts files back at paths the constructor found a Dashboard
\* at. It takes a removal or a renaming first, which MaxEdits counts, so it
\* is not counted again.
PutsBack(newfs) ==
    /\ fs.dir \subseteq newfs.dir
    /\ newfs = [fs EXCEPT !.dir = newfs.dir]
    /\ newfs.dir \ fs.dir \subseteq {w.file : w \in dashboard_file_watchers}

\* The files become newfs; `watched` tells whether a build watcher sees it.
Change(newfs, watched) ==
    /\ phase # "crashed"
    /\ fs' = newfs
    /\ IF newfs = fs \/ PutsBack(newfs)
       THEN UNCHANGED nedits
       ELSE nedits < MaxEdits /\ nedits' = nedits + 1
    /\ IF watched /\ Watching THEN StartBuild ELSE UNCHANGED pc
    /\ pending' = pending \cup {w \in dashboard_file_watchers :
                                 Touches(newfs, w.file)}
    /\ UNCHANGED << css, cm_error, settings, query_providers,
                    data_source_handler, shared_cards, dashboards,
                    main_dashboard, dicts, dashboard_file_watchers, ct, phase,
                    loc >>

\* settings.toml is rewritten (line 63)
EditSettings ==
    \E v \in SettingsFiles \ {fs.settings} :
        Change([fs EXCEPT !.settings = v], TRUE)

\* data_sources.toml is rewritten (line 67)
EditDataSources ==
    \E v \in {"ok", "bad"} \ {fs.ds} : Change([fs EXCEPT !.ds = v], TRUE)

\* shared_cards.toml is rewritten (line 68)
EditSharedCards ==
    \E v \in {"ok", "bad"} \ {fs.shared} :
        Change([fs EXCEPT !.shared = v], TRUE)

\* a theme source is written or removed in the custom themes folder (line 70)
EditCustomThemes ==
    \E t \in Themes :
        Change([fs EXCEPT !.themes = IF t \in @ THEN @ \ {t} ELSE @ \cup {t}],
               TRUE)

\* users.toml, the platform, templates or markdown folders change
\* (lines 69, 73-81): nothing build() reads is different afterwards
TouchOther == Watching /\ Change(fs, TRUE)

\* an entry appears in the dashboards folder (line 64, event="added")
AddDashboard ==
    \E e \in Entries \ fs.dir : Change([fs EXCEPT !.dir = @ \cup {e}], TRUE)

\* an entry disappears from the dashboards folder: not an "added" event
RemoveDashboard ==
    \E e \in fs.dir : Change([fs EXCEPT !.dir = @ \ {e}], FALSE)

\* an entry of the dashboards folder is renamed: the new name is added
RenameDashboard ==
    \E e \in fs.dir : \E n \in Entries \ fs.dir :
        Change([fs EXCEPT !.dir = (@ \ {e}) \cup {n}], TRUE)

\* a dashboard's file is rewritten: the watcher of that path, if there is
\* one, will call back (lines 84-86); the folder sees no "added" event
EditDashboardFile ==
    \E e \in fs.dir : Change([fs EXCEPT !.cards[e] = 1 - @], FALSE)

FileChange ==
    \/ EditDashboardFile
    \/ EditSettings
    \/ EditDataSources
    \/ EditSharedCards
    \/ EditCustomThemes
    \/ TouchOther
    \/ AddDashboard
    \/ RemoveDashboard
    \/ RenameDashboard

\* ---------------------------------------------------------------- callbacks

\* dboard.load_cards, called by the watcher w made at lines 84-86: the
\* Dashboard the watcher is bound to reads its cards again, wherever that
\* Dashboard is.
LoadCardsOf(w, d) ==
    [k \in DOMAIN d |->
        IF d[k].gen = w.gen /\ d[k].file = w.file
        THEN [d[k] EXCEPT !.cards = fs.cards[w.file]] ELSE d[k]]

load_cards ==
    \E w \in pending :
        /\ pending' = pending \ {w}
        /\ dicts' = [d \in Builds |-> LoadCardsOf(w, dicts[d])]
        /\ UNCHANGED << fs, css, cm_error, settings, query_providers,
                        data_source_handler, shared_cards, dashboards,
                        main_dashboard, dashboard_file_watchers, ct, phase, pc,
                        loc, nedits >>

\* ------------------------------------------------------------ change_theme

\* change_theme had it called self.build() after setting the theme.
ChangeThemeAndBuild ==
    /\ phase = "serving"
    /\ ct.pc = "idle"
    /\ nedits < MaxEdits
    /\ nedits' = nedits + 1
    /\ \E theme_name \in Themes :
          settings' = [settings EXCEPT !.theme = theme_name]
    /\ ct' = [ct EXCEPT !.pc = "compile"]
    /\ StartBuild
    /\ UNCHANGED << fs, css, cm_error, query_providers, data_source_handler,
                    shared_cards, dashboards, main_dashboard, dicts,
                    dashboard_file_watchers, pending, phase, loc >>

\* line 170: self.settings.theme = theme_name
ChangeTheme ==
    /\ phase = "serving"
    /\ ct.pc = "idle"
    /\ nedits < MaxEdits
    /\ nedits' = nedits + 1
    /\ \E theme_name \in Themes :
          settings' = [settings EXCEPT !.theme = theme_name]
    /\ ct' = [ct EXCEPT !.pc = "compile"]
    /\ UNCHANGED << fs, css, cm_error, query_providers, data_source_handler,
                    shared_cards, dashboards, main_dashboard, dicts,
                    dashboard_file_watchers, pending, phase, pc, loc >>

\* line 171, lines 152-165: compile_theme; when sass.compile raises the
\* request ends
ChangeThemeCompile ==
    /\ ct.pc = "compile"
    /\ IF Compiles(settings.theme)
       THEN ct' = [pc |-> "write", css |-> settings.theme] /\ UNCHANGED css
       ELSE ct' = [pc |-> "idle", css |-> None]
            /\ css' = StylesheetOnError(css)
    /\ UNCHANGED << fs, cm_error, settings, query_providers,
                    data_source_handler, shared_cards, dashboards,
                    main_dashboard, dicts, dashboard_file_watchers, pending,
                    phase, pc, loc, nedits >>

\* line 171, lines 166-167
ChangeThemeWriteCss ==
    /\ ct.pc = "write"
    /\ css' = ct.css
    /\ ct' = [pc |-> "idle", css |-> None]
    /\ UNCHANGED << fs, cm_error, settings, query_providers,
                    data_source_handler, shared_cards, dashboards,
                    main_dashboard, dicts, dashboard_file_watchers, pending,
                    phase, pc, loc, nedits >>

change_theme ==
    \/ ChangeTheme
    \/ ChangeThemeCompile
    \/ ChangeThemeWriteCss

\* ------------------------------------------------------------------ Spec

Next ==
    \/ \E b \in Builds : build(b)
    \/ RegisterBuildWatchers
    \/ BeginDashboardWatchers
    \/ RegisterDashboardWatcher
    \/ FileChange
    \/ load_cards
    \/ change_theme

Spec == Init /\ [][Next]_vars

\* Every thread that has a statement to execute executes it in the end: the
\* builds, the constructor, the watchers' callbacks and a change_theme that
\* has begun. Nothing makes the files change or a request arrive.
Fairness ==
    /\ \A b \in Builds : WF_vars(build(b))
    /\ WF_vars(RegisterBuildWatchers)
    /\ WF_vars(BeginDashboardWatchers)
    /\ WF_vars(RegisterDashboardWatcher)
    /\ WF_vars(load_cards)
    /\ WF_vars(ChangeThemeCompile \/ ChangeThemeWriteCss)

FairSpec == Spec /\ Fairness

\* ------------------------------------------------------------------ reads

\* What a reader of self.dashboards finds.
Mapping == IF dashboards = NoDict THEN EmptyDict ELSE dicts[dashboards]

\* lines 138-140: self.dashboards[name] if self.dashboards.get(name)
\* else self.main_dashboard
get_dashboard_by_name(name) ==
    IF name \in DOMAIN Mapping THEN Mapping[name] ELSE main_dashboard

\* Names a page request may ask for.
LookupNames == {"main", "media", "nonexistent"}

\* ------------------------------------------------------- words of the claims

\* build() number b executes a statement in this step.
StepOf(b) == pc'[b] # pc[b] \/ loc'[b] # loc[b]

\* build() number b returns in this step.
Returns(b) == pc[b] # "done" /\ pc'[b] = "done"

\* build() number b is left by an exception in this step.
Raises(b) == pc[b] \notin Exceptions /\ pc'[b] \in Exceptions

\* build() number b has executed its first statement and has not finished.
Building(b) == pc[b] \notin {"idle", "clear", "done"} \cup Exceptions

\* No build() is between its first statement and its end.
Quiet == \A b \in Builds : ~Building(b) /\ pc[b] # "clear"

\* Every Dashboard of mapping m carries the error e.
AllCarry(m, e) == \A k \in DOMAIN m : m[k].error = e

\* ----------------------------------------------------------------- claims

\* C1: a build() whose Settings load failed is not left by an exception, and
\* when it returns every Dashboard of the mapping carries the Settings error,
\* whatever the data-source load gave.
C1_SettingsErrorOnEveryDashboard ==
    [][\A b \in Builds :
          loc[b].setErr # None =>
              /\ ~Raises(b)
              /\ Returns(b) => AllCarry(Mapping', loc[b].setErr)]_vars

\* C2: when a build() whose data-source load failed returns, every Dashboard
\* of the mapping carries the data-source error; and the statements of the
\* data-source branch (lines 124-126) leave self.settings as it is.
C2_DataSourceErrorOnEveryDashboard ==
    [][\A b \in Builds :
          /\ (loc[b].dsErr # None /\ Returns(b))
                => AllCarry(Mapping', loc[b].dsErr)
          /\ (pc[b] \in {"test_datasources", "stamp_datasources"} /\ StepOf(b))
                => settings' = settings]_vars

\* C3: once the constructor has returned, get_dashboard_by_name never gives
\* None: a key of the mapping gives its Dashboard, any other name gives what
\* get_dashboard_by_name("main") gives.
C3_LookupNeverNone ==
    phase = "serving" =>
        \A name \in LookupNames :
            /\ get_dashboard_by_name(name) # NoneObj
            /\ name \in DOMAIN Mapping
                  => get_dashboard_by_name(name) = Mapping[name]
            /\ name \notin DOMAIN Mapping
                  => get_dashboard_by_name(name) = get_dashboard_by_name("main")

\* C4: when a build() returns, the keys of the mapping are exactly the names
\* of the entries that build found in the dashboards folder.
C4_KeysAreTheDirectory ==
    [][\A b \in Builds :
          Returns(b) => DOMAIN Mapping' = Keys(loc[b].listed)]_vars

\* C5: a build() whose theme does not compile is not left by the failure: it
\* goes on to load the data sources.
C5_ThemeFailureNotFatal ==
    [][\A b \in Builds :
          (pc[b] = "compile" /\ StepOf(b))
              => pc'[b] \in {"write", "datasources"}]_vars

\* A compile_theme, of a build() or of change_theme, fails in this step.
CompileFails ==
    \/ \E b \in Builds : pc[b] = "compile" /\ pc'[b] = "CompileError"
    \/ ct.pc = "compile" /\ ct'.pc = "idle"

\* C6: a compile_theme that fails leaves bootstrap.min.css as it was.
C6_FailedCompileKeepsStylesheet == [][CompileFails => css' = css]_vars

\* C6, its case: a rebuild was left by the compiler's error while a
\* stylesheet compiled earlier is in place.
C6_Witness ==
    \E b \in Rebuilds : pc[b] = "CompileError" /\ css \in Themes

\* C7: what a reader finds in the mapping changes only in the step in which
\* a build() completes: the statements before it show readers nothing.
C7_ReadersSeeWholeGenerations ==
    [][\A b \in Rebuilds :
          StepOf(b) => (Mapping' = Mapping \/ Returns(b))]_vars

\* C8: at most one build() is between its first statement and its end.
C8_OneBuildAtATime == Cardinality({b \in Builds : Building(b)}) <= 1

\* The error a build() of the files as they are puts on every Dashboard.
ErrorOfFiles ==
    IF fs.ds = "bad" THEN DataSourceErr
    ELSE IF ~fs.settings.valid THEN SettingsErr ELSE None

\* The mapping is what one build() of the files as they are leaves.
OneGeneration ==
    /\ DOMAIN Mapping = Keys(fs.dir)
    /\ \E b \in Builds : \A k \in DOMAIN Mapping : Mapping[k].gen = b
    /\ AllCarry(Mapping, ErrorOfFiles)

\* C9: when the files never changed and every build() that was triggered has
\* returned, the mapping is one generation, as a single build() leaves it.
C9_ConcurrentBuildsOneGeneration ==
    (nedits = 0 /\ \A b \in Builds : pc[b] = "done") => OneGeneration

\* C10: once the constructor has returned and no build() is running, every
\* Dashboard of the mapping has a watcher, registered at lines 84-86, that is
\* bound to that very Dashboard.
C10_EveryDashboardWatched ==
    (phase = "serving" /\ Quiet)
        => Objects(Mapping) \subseteq dashboard_file_watchers

\* The Dashboard that watcher w is bound to has gone with a rebuild: a
\* rebuild has returned, the mapping is the one it made, and the name of
\* w's file is not among its keys.
Retired(w) ==
    \E b \in Rebuilds :
        /\ pc[b] = "done"
        /\ dashboards = b
        /\ Key(w.file) \notin DOMAIN Mapping

\* C11: once a rebuild has left a Dashboard of the previous generation out of
\* the mapping, no later change of the files, a file created again at the old
\* path included, makes the watcher bound to that Dashboard call load_cards.
C11_OrphanSubscriptionCancelled ==
    [][\A w \in pending' \ pending : ~Retired(w)]_vars

\* The keys of the mapping are not the names in the dashboards folder.
Stale == DOMAIN Mapping # Keys(fs.dir)

\* C12: from the moment the constructor has returned with a mapping that
\* shows the dashboards folder, whenever the folder has changed so that the
\* mapping no longer shows it and no build() is running, a rebuild runs in
\* the end.
C12_RebuildAfterAnyChange ==
    []((phase = "serving" /\ Quiet /\ ~Stale)
          => []((Quiet /\ Stale) => <>(\E b \in Rebuilds : Building(b))))

\* What the claims compare of a mapping: its keys and, for every key, the
\* cards and the error of its Dashboard.
Content(m) ==
    [k \in DOMAIN m |-> [cards |-> m[k].cards, error |-> m[k].error]]

\* build() number 1 has run right after the startup build: no other build()
\* was started, the files are as the constructor found them, and the
\* constructor's loop of line 83 still holds the mapping the startup build
\* made.
SecondInSuccession ==
    /\ nedits = 0
    /\ \A b \in Rebuilds \ {1} : pc[b] = "idle"
    /\ phase = "registering"
    /\ loc[0].it = 0

\* C13: when build() is called a second time in succession with the files
\* unchanged, the mapping it leaves has the keys of the first call's mapping
\* and, key by key, the same cards and the same error.
C13_BuildIsIdempotent ==
    [][(SecondInSuccession /\ Returns(1))
          => Content(Mapping') = Content(dicts'[0])]_vars

\* C13, its case: the second build() has returned after the first, with a
\* settings.toml that does not parse, so that both stamped their Dashboards.
C13_Witness ==
    /\ SecondInSuccession
    /\ pc[1] = "done"
    /\ dashboards = 1
    /\ ~fs.settings.valid
    /\ DOMAIN Mapping = {"main", "media"}

\* C14: once the startup build has returned, self.settings and
\* self.data_source_handler are never None: not inside a later build(), and
\* not after a build() that an exception has left.
C14_SettingsAndHandlerNeverNone ==
    pc[0] = "done" => (settings # NoneObj /\ data_source_handler # NoneObj)

\* C14, its case: after the startup build, a rebuild was left by an
\* exception while another one is between two statements.
C14_Witness ==
    /\ pc[0] = "done"
    /\ \E b \in Rebuilds : pc[b] \in Exceptions
    /\ \E b \in Rebuilds : Building(b)
    /\ settings # NoneObj
    /\ data_source_handler # NoneObj

\* C15: when a build() whose Settings load failed returns, the error of
\* self.settings is not empty.
C15_SettingsErrorKept ==
    [][\A b \in Builds :
          (loc[b].setErr # None /\ Returns(b)) => settings'.error # None]_vars

\* C16: a statement of change_theme sets the theme of the live Settings and
\* nothing else of it (line 170), then compiles that theme and writes the
\* stylesheet (line 171); it executes no statement of build() and leaves the
\* mapping, the DataSourceHandler, the shared cards, the query-provider
\* registry and the error holder as they are.
C16_ChangeThemeCompilesOnly ==
    [][ct' # ct =>
          /\ UNCHANGED << dashboards, dicts, data_source_handler, shared_cards,
                          query_providers, cm_error, pc, loc >>
          /\ ct.pc = "idle" =>
                /\ ct'.pc = "compile"
                /\ settings'.theme \in Themes
                /\ settings' = [settings EXCEPT !.theme = settings'.theme]
          /\ ct.pc = "compile" =>
                /\ settings' = settings
                /\ ct'.pc = "write" => ct'.css = settings.theme]_vars

\* C16, its case: a change_theme request has set a theme other than the one
\* settings.toml names and compiled it, with the Dashboards loaded.
C16_Witness ==
    /\ ct.pc = "write"
    /\ ct.css = settings.theme
    /\ fs.settings.valid
    /\ settings.theme # fs.settings.theme
    /\ DOMAIN Mapping = {"main", "media"}

\* The step of the build() sequence a position belongs to: 1 the error
\* holder, 2 the Settings and the registry, 3 the theme, 4 the data sources,
\* 5 the shared cards, 6 the Dashboards, 7 the errors passed to the
\* Dashboards, 8 returned.
StageOf(p) ==
    CASE p = "clear" -> 1
      [] p \in {"settings", "providers"} -> 2
      [] p \in {"compile", "write"} -> 3
      [] p = "datasources" -> 4
      [] p = "shared" -> 5
      [] p \in {"newdict", "listdir", "load"} -> 6
      [] p \in {"stamp_settings", "reset_settings", "test_datasources",
                "stamp_datasources"} -> 7
      [] p = "done" -> 8
      [] OTHER -> 0

\* A Dashboard is put into a dict in this step.
DashboardLoaded ==
    \E d \in Builds : ~(Objects(dicts'[d]) \subseteq Objects(dicts[d]))

\* The error of a Dashboard is set in this step.
DashboardStamped ==
    \E d \in Builds : \E k \in DOMAIN dicts[d] \cap DOMAIN dicts'[d] :
        /\ dicts'[d][k].gen = dicts[d][k].gen
        /\ dicts'[d][k].file = dicts[d][k].file
        /\ dicts'[d][k].error # dicts[d][k].error

\* C17: a build() goes through its steps in order, none left out: a
\* statement stays in its step or moves to the next one, and each effect
\* belongs to its step: the error holder is cleared in step 1, the Settings
\* and the registry are set in step 2 (the Settings once more in step 7),
\* the stylesheet in step 3, the DataSourceHandler in step 4, the shared
\* cards in step 5; Dashboards are loaded in step 6 only and stamped in
\* step 7 only.
C17_BuildStepsInOrder ==
    [][\A b \in Builds :
          (StepOf(b) /\ StageOf(pc[b]) \in 1 .. 7 /\ ~Raises(b)) =>
              /\ StageOf(pc'[b]) \in {StageOf(pc[b]), StageOf(pc[b]) + 1}
              /\ StageOf(pc[b]) = 1 => cm_error' = None
              /\ settings' # settings => StageOf(pc[b]) \in {2, 7}
              /\ query_providers' # query_providers => StageOf(pc[b]) = 2
              /\ pc[b] = "providers"
                    => query_providers' = ProvidersOf(settings)
              /\ css' # css => StageOf(pc[b]) = 3
              /\ StageOf(pc[b]) = 4
                    <=> data_source_handler' = DataSourceHandler(fs.ds)
                           /\ pc'[b] = "shared"
              /\ data_source_handler' # data_source_handler
                    => StageOf(pc[b]) = 4
              /\ StageOf(pc[b]) = 5 => shared_cards' = load_shared_cards
              /\ shared_cards' # shared_cards => StageOf(pc[b]) = 5
              /\ dashboards' # dashboards => pc[b] = "newdict"
              /\ DashboardLoaded => pc[b] = "load"
              /\ DashboardStamped
                    => pc[b] \in {"stamp_settings", "stamp_datasources"}]_vars

\* C17, its case: a rebuild has gone through every step and is passing the
\* data-source error to the Dashboards it loaded.
C17_Witness ==
    \E b \in Rebuilds :
        /\ pc[b] = "stamp_datasources"
        /\ dashboards = b
        /\ DOMAIN Mapping # {}
        /\ data_source_handler.error = DataSourceErr
        /\ \E k \in DOMAIN Mapping : Mapping[k].error = DataSourceErr

\* C18: when shared_cards.toml cannot be loaded, the statement of line 112
\* stores an empty collection, raises nothing and goes on to the Dashboards;
\* it leaves the error holder cleared and changes no Dashboard.
C18_SharedCardsFailureSetsNoError ==
    [][\A b \in Builds :
          (pc[b] = "shared" /\ StepOf(b) /\ fs.shared = "bad") =>
              /\ shared_cards' = "empty"
              /\ pc'[b] = "newdict"
              /\ cm_error' = None
              /\ dicts' = dicts
              /\ dashboards' = dashboards]_vars

\* C18, its case: a rebuild for which shared_cards.toml could not be loaded
\* has returned with every Dashboard of the folder loaded and none carrying
\* an error.
C18_Witness ==
    \E b \in Rebuilds :
        /\ pc[b] = "done"
        /\ dashboards = b
        /\ fs.shared = "bad"
        /\ shared_cards = "empty"
        /\ cm_error = None
        /\ DOMAIN Mapping = {"main", "media"}
        /\ AllCarry(Mapping, None)

\* This step leaves the mapping, the DataSourceHandler and the shared cards
\* exactly as they are.
KeepsLoaded ==
    /\ dashboards' = dashboards
    /\ Mapping' = Mapping
    /\ data_source_handler' = data_source_handler
    /\ shared_cards' = shared_cards

\* C19: in a build() that a watcher called, the statements up to the compile
\* replace the error holder, the Settings and the registry and leave the
\* mapping, the DataSourceHandler and the shared cards exactly as they are;
\* a theme that does not compile ends the build there, nothing is put back,
\* and the build executes nothing more.
C19_CompileRaiseKeepsLoaded ==
    [][\A b \in Rebuilds :
          /\ (StepOf(b) /\ StageOf(pc[b]) \in {1, 2}) =>
                /\ KeepsLoaded
                /\ pc[b] = "clear" => cm_error' = None
                /\ pc[b] = "settings" => settings' = Settings(fs.settings)
                /\ pc[b] = "providers"
                      => query_providers' = ProvidersOf(settings)
          /\ (StepOf(b) /\ pc[b] = "compile" /\ ~Compiles(settings.theme)) =>
                /\ pc'[b] = "CompileError"
                /\ KeepsLoaded
                /\ UNCHANGED << cm_error, settings, query_providers >>
          /\ pc[b] = "CompileError" => ~StepOf(b)]_vars

\* C19, its case: a rebuild was left by the compiler's error; the mapping is
\* still the startup build's, the Settings are the ones the rebuild loaded.
C19_Witness ==
    \E b \in Rebuilds :
        /\ pc[b] = "CompileError"
        /\ dashboards = 0
        /\ DOMAIN Mapping = {"main", "media"}
        /\ settings = Settings(fs.settings)
        /\ settings.theme \notin fs.themes
        /\ data_source_handler # NoneObj

\* C20: as long as the startup build has not returned, no watcher is
\* registered: the constructor is at line 60 (or an exception has left it),
\* no callback has started a build() and no load_cards is due.
C20_StartupBuildRunsAlone ==
    pc[0] # "done" =>
        /\ phase \in {"init", "crashed"}
        /\ \A b \in Rebuilds : pc[b] = "idle"
        /\ dashboard_file_watchers = {}
        /\ pending = {}

\* C20, its case: a file was changed while the startup build was loading
\* the Dashboards, and nothing was called back.
C20_Witness ==
    /\ pc[0] = "load"
    /\ nedits = 1
    /\ phase = "init"
    /\ \A b \in Rebuilds : pc[b] = "idle"

====
